---- MODULE Spec2Model ----
(***************************************************************************)
(* Model of plugins/modules/files/source_file.py: the Ansible module that  *)
(* sources a bash/dotenv-like file.  Strings are sequences of one-character *)
(* strings.  Three specifications share the variables:                      *)
(*   Spec     one run of main() over a file, a prefix and the two flags;    *)
(*   SpecTV   one call of typed_value() on a string;                        *)
(*   SpecRec  the tree of recursive calls one call of typed_value() makes.  *)
(***************************************************************************)
EXTENDS Integers, Sequences, FiniteSets, TLC

VARIABLES
    path_is_file,   \* os.path.isfile(path)
    prefix,         \* module.params["prefix"]
    lower,          \* boolean(module.params["lower"])
    check_mode,     \* module.check_mode
    file,           \* the lines of the file, in order, without their line terminator
    idx,            \* number of lines the for loop has consumed
    variables,      \* the dict `variables`
    result,         \* the dict `result`
    output,         \* what the module hands back to its caller
    pc,             \* position in main()
    arg,            \* SpecTV: the argument of the call
    ret,            \* SpecTV: what the call returned or raised
    phase,          \* SpecTV: "call" before, "returned" after
    root,           \* SpecRec: the argument of the outermost call
    stack           \* SpecRec: the invocations still to run, innermost first

vars == <<path_is_file, prefix, lower, check_mode, file, idx, variables, result,
          output, pc, arg, ret, phase, root, stack>>

mainVars == <<path_is_file, prefix, lower, check_mode, file, idx, variables,
              result, output, pc>>
tvVars == <<arg, ret, phase>>
recVars == <<root, stack>>

\* Bounds of the model.
MaxLen == 5      \* longest string handed to typed_value in SpecTV and SpecRec
MaxLines == 2    \* longest file drawn from LinePool in Spec

(***************************************************************************)
(* Characters and the str methods the module uses.                          *)
(***************************************************************************)
UpperLetters == <<"A","B","C","D","E","F","G","H","I","J","K","L","M",
                  "N","O","P","Q","R","S","T","U","V","W","X","Y","Z">>
LowerLetters == <<"a","b","c","d","e","f","g","h","i","j","k","l","m",
                  "n","o","p","q","r","s","t","u","v","w","x","y","z">>
Letters == {UpperLetters[i] : i \in 1..26} \cup {LowerLetters[i] : i \in 1..26}
Digits == {"0","1","2","3","4","5","6","7","8","9"}
Whitespace == {" ", "\t", "\n", "\r"}

Min(S) == CHOOSE x \in S : \A y \in S : x <= y
Max(S) == CHOOSE x \in S : \A y \in S : y <= x

\* str.lower() on one character
LowerChar(c) ==
    IF \E i \in 1..26 : UpperLetters[i] = c
    THEN LowerLetters[CHOOSE i \in 1..26 : UpperLetters[i] = c]
    ELSE c

\* str.lower()
Lower(s) == [i \in 1..Len(s) |-> LowerChar(s[i])]

\* str.strip()
Strip(s) ==
    LET keep == {i \in 1..Len(s) : s[i] \notin Whitespace}
    IN  IF keep = {} THEN <<>> ELSE SubSeq(s, Min(keep), Max(keep))

\* c in s, for a one-character c
HasChar(s, c) == \E i \in 1..Len(s) : s[i] = c

\* s.count(c)
Count(s, c) == Cardinality({i \in 1..Len(s) : s[i] = c})

\* s.split(d)
RECURSIVE Split(_, _)
Split(s, d) ==
    LET pos == {i \in 1..Len(s) : s[i] = d}
    IN  IF pos = {} THEN <<s>>
        ELSE <<SubSeq(s, 1, Min(pos) - 1)>>
                 \o Split(SubSeq(s, Min(pos) + 1, Len(s)), d)

\* s.startswith(c), s.endswith(c)
StartsWith(s, c) == Len(s) > 0 /\ s[1] = c
EndsWith(s, c) == Len(s) > 0 /\ s[Len(s)] = c

(***************************************************************************)
(* ansible.module_utils.parsing.convert_bool                                *)
(***************************************************************************)
BOOLEANS_TRUE == {<<"y">>, <<"y","e","s">>, <<"o","n">>, <<"1">>,
                  <<"t","r","u","e">>, <<"t">>}
BOOLEANS_FALSE == {<<"n">>, <<"n","o">>, <<"o","f","f">>, <<"0">>,
                   <<"f","a","l","s","e">>, <<"f">>}
BOOLEANS == BOOLEANS_TRUE \cup BOOLEANS_FALSE

\* boolean(value), for a value whose lower-cased form is in BOOLEANS
boolean(value) == Lower(Strip(value)) \in BOOLEANS_TRUE

(***************************************************************************)
(* The values typed_value returns, and the exception it may raise.          *)
(***************************************************************************)
Bool(b) == [tag |-> "Bool", b |-> b]
Text(s) == [tag |-> "Text", s |-> s]
List(xs) == [tag |-> "List", items |-> xs]
Mapping(m) == [tag |-> "Mapping", m |-> m]
Raise(e) == [tag |-> "Raise", exc |-> e]

EmptyDict == [k \in {} |-> Text(<<>>)]

\* d.update({k: v}) / d[k] = v
DictUpdateFirstWins(d, k, v) ==
    [x \in DOMAIN d \cup {k} |-> IF x \in DOMAIN d THEN d[x] ELSE v]
DictUpdate(d, k, v) ==
    [x \in DOMAIN d \cup {k} |-> IF x = k THEN v ELSE d[x]]

(***************************************************************************)
(* typed_value                                                              *)
(***************************************************************************)
IsQuoted(value) ==
    \/ StartsWith(value, "'") /\ EndsWith(value, "'")
    \/ StartsWith(value, "\"") /\ EndsWith(value, "\"")

\* lines 62-69: remove surrounding quotes
StripQuotesSingleOnly(value) ==
    IF StartsWith(value, "'") /\ EndsWith(value, "'")
    THEN Strip(SubSeq(value, 2, Len(value) - 1))
    ELSE value
StripQuotes(value) ==
    IF IsQuoted(value) THEN Strip(SubSeq(value, 2, Len(value) - 1)) ELSE value

\* line 73: value.split(",")
ListPiecesFirstComma(v) ==
    LET p == Min({i \in 1..Len(v) : v[i] = ","})
    IN  IF HasChar(v, ",")
        THEN <<SubSeq(v, 1, p - 1), SubSeq(v, p + 1, Len(v))>>
        ELSE <<v>>
ListPiecesUnsplit(v) == <<v>>
ListPieces(v) == Split(v, ",")

\* line 77: value.split(";")
DictPiecesNonEmpty(v) == SelectSeq(Split(v, ";"), LAMBDA p : p # <<>>)
DictPieces(v) == Split(v, ";")

\* line 76 evaluated on the list of line 73: `";" in value and "=" in value`
ListHasBothTokens(items) ==
    /\ \E i \in 1..Len(items) : items[i] = Text(<<";">>)
    /\ \E i \in 1..Len(items) : items[i] = Text(<<"=">>)

\* a comprehension stops at the first element whose evaluation raises
AnyRaise(items) == \E i \in 1..Len(items) : items[i].tag = "Raise"
FirstRaise(items) == items[Min({i \in 1..Len(items) : items[i].tag = "Raise"})]

\* line 80 on one item: what unpacking item.split("=") into two names raises
ItemError(item) ==
    IF item.tag # "Text" THEN "AttributeError"
    ELSE IF Len(Split(item.s, "=")) # 2 THEN "ValueError"
    ELSE "none"

\* line 80: (i.strip() for i in item.split("="))
ItemPartsUnstripped(item) == Split(item, "=")
ItemParts(item) == [i \in 1..Len(Split(item, "=")) |-> Strip(Split(item, "=")[i])]

\* line 84: the test of the bool branch
IsBoolToken(v) == Lower(v) \in BOOLEANS

RECURSIVE typed_value(_), BuildDict(_, _, _)

\* lines 78-81: the loop over value_items, from item i on, d being the dict so far
BuildDict(value_items, i, d) ==
    IF i > Len(value_items) THEN Mapping(d)
    ELSE IF ItemError(value_items[i]) # "none"
    THEN Raise(ItemError(value_items[i]))
    ELSE LET parts == ItemParts(value_items[i].s)
             key_item == parts[1]
             value_item == parts[2]
             typed == typed_value(value_item)
         IN  IF typed.tag = "Raise" THEN typed
             ELSE BuildDict(value_items, i + 1, DictUpdate(d, key_item, typed))

\* lines 60-87
typed_value(value) ==
    LET v == StripQuotes(value)
    IN  IF HasChar(v, ",")
        THEN LET pieces == ListPieces(v)
                 items == [i \in 1..Len(pieces) |-> typed_value(Strip(pieces[i]))]
             IN  IF AnyRaise(items) THEN FirstRaise(items)
                 ELSE IF ListHasBothTokens(items) THEN Raise("AttributeError")
                 ELSE List(items)
        ELSE IF HasChar(v, ";") /\ HasChar(v, "=")
        THEN LET pieces == DictPieces(v)
                 value_items ==
                     [i \in 1..Len(pieces) |-> typed_value(Strip(pieces[i]))]
             IN  IF AnyRaise(value_items)
                 THEN FirstRaise(value_items)
                 ELSE BuildDict(value_items, 1, EmptyDict)
        ELSE IF IsBoolToken(v) THEN Bool(boolean(v))
        ELSE Text(v)

(***************************************************************************)
(* SpecTV: one call of typed_value.  Every caller hands it a stripped       *)
(* string (lines 73, 77, 81 and 137), so the arguments are the stripped     *)
(* strings over Alphabet of at most MaxLen characters.                      *)
(***************************************************************************)
Alphabet == {"'", "\"", ",", ";", "=", " ", "N", "o"}

StringsUpTo(n) == UNION {[1..k -> Alphabet] : k \in 0..n}
Inputs == {s \in StringsUpTo(MaxLen) : Strip(s) = s}

NoValue == [tag |-> "None"]

InitTV ==
    /\ arg \in Inputs
    /\ ret = NoValue
    /\ phase = "call"
    /\ path_is_file = FALSE /\ prefix = <<>> /\ lower = FALSE
    /\ check_mode = FALSE /\ file = <<>> /\ idx = 0
    /\ variables = EmptyDict /\ result = NoValue /\ output = NoValue
    /\ pc = "idle"
    /\ root = <<>> /\ stack = <<>>

CallTypedValue ==
    /\ phase = "call"
    /\ ret' = typed_value(arg)
    /\ phase' = "returned"
    /\ UNCHANGED <<arg, mainVars, recVars>>

NextTV == CallTypedValue

SpecTV == InitTV /\ [][NextTV]_vars

(***************************************************************************)
(* Claims about typed_value, checked under SpecTV.                          *)
(***************************************************************************)
Returned == phase = "returned"

\* the string with one layer of matching surrounding quotes removed and trimmed,
\* as the claims word it: a pair of quotes takes two characters
Unquoted(s) ==
    IF /\ Len(s) >= 2
       /\ \/ s[1] = "'" /\ s[Len(s)] = "'"
          \/ s[1] = "\"" /\ s[Len(s)] = "\""
    THEN Strip(SubSeq(s, 2, Len(s) - 1))
    ELSE s

IsMappingCandidate(s) == HasChar(s, ";") /\ HasChar(s, "=") /\ ~HasChar(s, ",")

\* every ;-separated piece of s holds exactly one =
WellFormedPieces(s) ==
    \A i \in 1..Len(Split(s, ";")) : Count(Split(s, ";")[i], "=") = 1

\* C2: for every input holding a comma, typed_value returns, without failing, a
\* list of (number of commas + 1) elements, element i being typed_value of the
\* i-th trimmed comma-separated piece.
C2_ListForEveryComma ==
    (Returned /\ HasChar(arg, ",")) =>
        LET pieces == Split(Unquoted(arg), ",")
        IN  /\ ret.tag = "List"
            /\ Len(ret.items) = Count(arg, ",") + 1
            /\ \A i \in 1..Len(pieces) :
                   ret.items[i] = typed_value(Strip(pieces[i]))

\* C3 as stated: for every input holding ; and = and no comma, typed_value
\* returns a mapping whose keys are the trimmed substrings left of the first =
\* of each ;-separated piece.
C3_MappingForEveryCandidate ==
    (Returned /\ IsMappingCandidate(arg)) =>
        LET pieces == Split(Unquoted(arg), ";")
        IN  /\ ret.tag = "Mapping"
            /\ DOMAIN ret.m =
                   {Strip(Split(pieces[i], "=")[1]) : i \in 1..Len(pieces)}

\* C3 amended: for every input holding ; and = and no comma whose ;-separated
\* pieces each hold exactly one =, typed_value returns a mapping whose keys are
\* the trimmed substrings left of the = of each piece, the input and each
\* trimmed piece taken without their one layer of surrounding quotes.
C3_MappingKeys ==
    (Returned /\ IsMappingCandidate(arg) /\ WellFormedPieces(Unquoted(arg))) =>
        LET pieces == Split(Unquoted(arg), ";")
        IN  /\ ret.tag = "Mapping"
            /\ DOMAIN ret.m =
                   {Strip(Split(Unquoted(Strip(pieces[i])), "=")[1]) :
                        i \in 1..Len(pieces)}

\* a mapping with two distinct keys, one of them taken from a quoted piece
C3_Witness ==
    /\ Returned
    /\ IsMappingCandidate(arg) /\ WellFormedPieces(Unquoted(arg))
    /\ ret.tag = "Mapping"
    /\ Cardinality(DOMAIN ret.m) = 2

\* C7: for every input that, unquoted and trimmed, holds no comma and not both
\* ; and =, typed_value returns Bool exactly when the lower-cased string is a
\* boolean token, and otherwise Text of the unquoted trimmed string unchanged.
C7_ScalarTyping ==
    LET u == Unquoted(arg)
    IN  (Returned /\ ~HasChar(u, ",") /\ ~(HasChar(u, ";") /\ HasChar(u, "="))) =>
            ret = IF Lower(u) \in BOOLEANS
                  THEN Bool(Lower(u) \in BOOLEANS_TRUE)
                  ELSE Text(u)

IsScalar(x) == x.tag \in {"Bool", "Text"}
IsFlatMapping(x) == x.tag = "Mapping" /\ \A k \in DOMAIN x.m : IsScalar(x.m[k])

\* C10: a value typed_value returns is a scalar, a mapping of scalars, or a
\* list whose elements are scalars or mappings of scalars.
C10_Shape ==
    (Returned /\ ret.tag # "Raise") =>
        \/ IsScalar(ret)
        \/ IsFlatMapping(ret)
        \/ /\ ret.tag = "List"
           /\ \A i \in 1..Len(ret.items) :
                  IsScalar(ret.items[i]) \/ IsFlatMapping(ret.items[i])

\* a list that holds a mapping: the deepest nesting there is
C10_Witness ==
    /\ Returned
    /\ ret.tag = "List"
    /\ \E i \in 1..Len(ret.items) : ret.items[i].tag = "Mapping"

(***************************************************************************)
(* SpecRec: the invocations of typed_value one outermost call gives rise    *)
(* to.  A frame is an invocation still to run: its argument, the length of  *)
(* its caller's argument and its depth below the outermost call.            *)
(***************************************************************************)
Frame(a, n, d) == [arg |-> a, caller_len |-> n, depth |-> d]

\* the value substrings line 81 hands to typed_value: the loop of lines 79-81
\* runs until an item fails to unpack
RECURSIVE ValueItemCalls(_, _)
ValueItemCalls(value_items, i) ==
    IF i > Len(value_items) \/ ItemError(value_items[i]) # "none" THEN <<>>
    ELSE <<ItemParts(value_items[i].s)[2]>> \o ValueItemCalls(value_items, i + 1)

\* the arguments of the calls one invocation makes itself (lines 73, 77, 81),
\* in order.  On line 73 a piece that follows one whose typing raises is not
\* reached; listing it only adds calls.
Calls(value) ==
    LET v == StripQuotes(value)
    IN  IF HasChar(v, ",")
        THEN [i \in 1..Len(ListPieces(v)) |-> Strip(ListPieces(v)[i])]
        ELSE IF HasChar(v, ";") /\ HasChar(v, "=")
        THEN LET pieces == DictPieces(v)
                 stripped == [i \in 1..Len(pieces) |-> Strip(pieces[i])]
                 value_items == [i \in 1..Len(pieces) |-> typed_value(stripped[i])]
             IN  stripped \o ValueItemCalls(value_items, 1)
        ELSE <<>>

InitRec ==
    /\ root \in Inputs
    /\ stack = <<Frame(root, Len(root), 0)>>
    /\ arg = <<>> /\ ret = NoValue /\ phase = "idle"
    /\ path_is_file = FALSE /\ prefix = <<>> /\ lower = FALSE
    /\ check_mode = FALSE /\ file = <<>> /\ idx = 0
    /\ variables = EmptyDict /\ result = NoValue /\ output = NoValue
    /\ pc = "idle"

\* the innermost pending invocation runs: a scalar returns at once
ReturnScalar ==
    /\ stack # <<>>
    /\ Calls(Head(stack).arg) = <<>>
    /\ stack' = Tail(stack)
    /\ UNCHANGED <<root, mainVars, tvVars>>

\* the innermost pending invocation runs and makes its own calls
Recurse ==
    /\ stack # <<>>
    /\ Calls(Head(stack).arg) # <<>>
    /\ LET f == Head(stack)
           c == Calls(f.arg)
       IN  stack' = [i \in 1..Len(c) |-> Frame(c[i], Len(f.arg), f.depth + 1)]
                        \o Tail(stack)
    /\ UNCHANGED <<root, mainVars, tvVars>>

NextRec == ReturnScalar \/ Recurse

SpecRec == InitRec /\ [][NextRec]_vars

\* C8: every recursive call of typed_value gets a string strictly shorter than
\* its caller's, so the depth of a call plus the length of its argument never
\* exceeds the length of the outermost argument.
C8_CallsShrink ==
    \A i \in 1..Len(stack) :
        /\ stack[i].depth > 0 => Len(stack[i].arg) < stack[i].caller_len
        /\ stack[i].depth + Len(stack[i].arg) <= Len(root)

\* a call on the value right of = (line 81) made by a call on a list piece
C8_Witness ==
    \E i \in 1..Len(stack) :
        /\ stack[i].depth = 2
        /\ HasChar(root, ",") /\ HasChar(root, ";") /\ HasChar(root, "=")

(***************************************************************************)
(* main(): the two regular expressions.                                     *)
(***************************************************************************)
\* line 110: key_pattern = "[a-zA-Z_][a-zA-Z0-9_-]*", its two character classes
KeyStartCharsWithDigits == Letters \cup Digits \cup {"_"}
KeyStartChars == Letters \cup {"_"}
KeyBodyChars == Letters \cup Digits \cup {"_", "-"}

\* the whole of s is one key_pattern
IsKeyPattern(s) ==
    /\ Len(s) >= 1
    /\ s[1] \in KeyStartChars
    /\ \A i \in 2..Len(s) : s[i] \in KeyBodyChars

\* line 111: regex_key.match(s), "^" + key_pattern + "$".  Without re.MULTILINE
\* "$" matches at the end of the string and also just before a newline that
\* ends the string.
regex_key(s) ==
    \/ IsKeyPattern(s)
    \/ /\ Len(s) >= 2
       /\ s[Len(s)] = "\n"
       /\ IsKeyPattern(SubSeq(s, 1, Len(s) - 1))

\* line 112: the length of group "key" in regex_key_value.match(line), 0 when
\* the line does not match.  "=" is in neither character class, so the key is
\* the longest run of key characters and "=" has to follow it.
KeyEnd(line) ==
    IF Len(line) = 0 \/ line[1] \notin KeyStartChars THEN 0
    ELSE LET n == Max({k \in 1..Len(line) :
                           \A i \in 2..k : line[i] \in KeyBodyChars})
         IN  IF n < Len(line) /\ line[n + 1] = "=" THEN n ELSE 0

\* line 129: match = regex_key_value.match(line)
regex_key_value(line) == KeyEnd(line) > 0

\* line 136: key = str(match.group("key")).strip()
LineKey(line) == Strip(SubSeq(line, 1, KeyEnd(line)))

\* line 137: value = str(match.group("value")).strip()
LineValue(line) == Strip(SubSeq(line, KeyEnd(line) + 2, Len(line)))

\* lines 139-145: merge prefix + key, then lower key
ComposeKeyWithSeparator(p, key, low) ==
    LET merged == IF p # <<>> THEN p \o <<".">> \o key ELSE key
    IN  IF low THEN Lower(merged) ELSE merged
ComposeKey(p, key, low) ==
    LET merged == IF p # <<>> THEN p \o key ELSE key
    IN  IF low THEN Lower(merged) ELSE merged

(***************************************************************************)
(* Spec: one run of main().                                                 *)
(***************************************************************************)
MsgNotFile == "does not exist or is not a file"
MsgPrefix == "is not a valid prefix"
MsgKey == "is not a valid variable name"
MsgException == "MODULE FAILURE"

\* lines 100-102
InitialResult == [changed |-> FALSE, has_vars |-> FALSE, vars |-> EmptyDict]

\* module.fail_json(msg=..., **result)
fail_json(msg, res) ==
    [failed |-> TRUE, msg |-> msg, changed |-> res.changed,
     has_vars |-> res.has_vars, vars |-> res.vars]

\* module.exit_json(**result)
exit_json(res) ==
    [failed |-> FALSE, msg |-> "", changed |-> res.changed,
     has_vars |-> res.has_vars, vars |-> res.vars]

\* an exception nobody catches: the module prints a traceback and no result
Traceback ==
    [failed |-> TRUE, msg |-> MsgException, changed |-> FALSE,
     has_vars |-> FALSE, vars |-> EmptyDict]

\* the lines the files of the model are made of
LinePool == {
    <<"A","=","N">>,
    <<"a","=","o">>,
    <<"A","=","o",",","N">>,
    <<"1","A","=","o">>,
    <<"#","A","=","o">>,
    <<>>,
    <<"B","=","o","=","N",";","a","=","o">>,
    <<"a","=","o","=","N",";">>,
    <<"B","=","N",";","o","=","o">>,
    <<"B","=","o","=","N","=","o",";","N","=","o">>,
    <<"B","=",";",",","=">>,
    <<"A","-","1","=","'","o"," ","N","'">> }

\* the file of the end-to-end example
ExampleFile == <<
    <<"#"," ","c","o","m","m","e","n","t">>,
    <<"F","O","O","=","1",",","2",",","3">>,
    <<"B","A","R","=","a","=","1",";","b","=","2">>,
    <<"B","A","Z","=","y","e","s">>,
    <<"Q","U","X","=","\"","h","e","l","l","o"," ","w","o","r","l","d","\"">> >>

Files == UNION {[1..n -> LinePool] : n \in 0..MaxLines} \cup {ExampleFile}

Prefixes == {<<>>, <<"p","_">>, <<"P">>, <<"1">>, <<"p","\n">>}

Init ==
    /\ path_is_file \in BOOLEAN
    /\ prefix \in Prefixes
    /\ lower \in BOOLEAN
    /\ check_mode \in BOOLEAN
    /\ file \in Files
    /\ idx = 0
    /\ variables = EmptyDict
    /\ result = InitialResult
    /\ output = NoValue
    /\ pc = "isfile"
    /\ arg = <<>> /\ ret = NoValue /\ phase = "idle"
    /\ root = <<>> /\ stack = <<>>

inputVars == <<path_is_file, prefix, lower, check_mode, file>>

\* lines 114-117
CheckIsFile ==
    /\ pc = "isfile"
    /\ IF ~path_is_file
       THEN pc' = "failed" /\ output' = fail_json(MsgNotFile, result)
       ELSE pc' = "prefix" /\ output' = output
    /\ UNCHANGED <<inputVars, idx, variables, result, tvVars, recVars>>

\* lines 119-125
CheckPrefix ==
    /\ pc = "prefix"
    /\ IF prefix # <<>> /\ ~regex_key(prefix)
       THEN pc' = "failed" /\ output' = fail_json(MsgPrefix, result)
       ELSE pc' = "loop" /\ output' = output
    /\ UNCHANGED <<inputVars, idx, variables, result, tvVars, recVars>>

\* lines 128-133: a line that is no assignment is skipped
SkipLine ==
    /\ pc = "loop"
    /\ idx < Len(file)
    /\ ~regex_key_value(file[idx + 1])
    /\ idx' = idx + 1
    /\ UNCHANGED <<inputVars, variables, result, output, pc, tvVars, recVars>>

\* lines 135-153: the composed key fails the key validity check
RejectKey ==
    /\ pc = "loop"
    /\ idx < Len(file)
    /\ regex_key_value(file[idx + 1])
    /\ ~regex_key(ComposeKey(prefix, LineKey(file[idx + 1]), lower))
    /\ pc' = "failed"
    /\ output' = fail_json(MsgKey, result)
    /\ UNCHANGED <<inputVars, idx, variables, result, tvVars, recVars>>

\* lines 135-156: typed_value raises and nothing catches it
CrashLine ==
    /\ pc = "loop"
    /\ idx < Len(file)
    /\ regex_key_value(file[idx + 1])
    /\ regex_key(ComposeKey(prefix, LineKey(file[idx + 1]), lower))
    /\ typed_value(LineValue(file[idx + 1])).tag = "Raise"
    /\ pc' = "crashed"
    /\ output' = Traceback
    /\ UNCHANGED <<inputVars, idx, variables, result, tvVars, recVars>>

\* lines 135-159: the typed value is stored under the composed key
StoreLine ==
    /\ pc = "loop"
    /\ idx < Len(file)
    /\ regex_key_value(file[idx + 1])
    /\ LET key == ComposeKey(prefix, LineKey(file[idx + 1]), lower)
           typed == typed_value(LineValue(file[idx + 1]))
       IN  /\ regex_key(key)
           /\ typed.tag # "Raise"
           /\ variables' = DictUpdate(variables, key, typed)
           /\ result' = IF ~check_mode
                        THEN [result EXCEPT !.has_vars = TRUE, !.vars = variables']
                        ELSE result
    /\ idx' = idx + 1
    /\ UNCHANGED <<inputVars, output, pc, tvVars, recVars>>

\* line 161
ExitJson ==
    /\ pc = "loop"
    /\ idx = Len(file)
    /\ pc' = "done"
    /\ output' = exit_json(result)
    /\ UNCHANGED <<inputVars, idx, variables, result, tvVars, recVars>>

Next ==
    \/ CheckIsFile
    \/ CheckPrefix
    \/ SkipLine
    \/ RejectKey
    \/ CrashLine
    \/ StoreLine
    \/ ExitJson

Spec == Init /\ [][Next]_vars

(***************************************************************************)
(* Claims about a run of main(), checked under Spec.                        *)
(***************************************************************************)
Terminated == pc \in {"done", "failed", "crashed"}

PrefixAccepted == prefix = <<>> \/ regex_key(prefix)

\* a line such as 1FOO=bar: a name that starts with a digit, then =
DigitNameLine(line) ==
    /\ Len(line) >= 2
    /\ line[1] \in Digits
    /\ \E n \in 2..Len(line) :
           /\ line[n] = "="
           /\ \A i \in 2..(n - 1) : line[i] \in Letters \cup Digits \cup {"_", "-"}

HasDigitNameLine == \E i \in 1..Len(file) : DigitNameLine(file[i])

NoLineRaises ==
    \A i \in 1..Len(file) :
        regex_key_value(file[i]) => typed_value(LineValue(file[i])).tag # "Raise"

MalformedMappingLine(line) ==
    /\ regex_key_value(line)
    /\ IsMappingCandidate(LineValue(line))
    /\ ~WellFormedPieces(LineValue(line))

WellFormedMappingLine(line) ==
    /\ regex_key_value(line)
    /\ IsMappingCandidate(LineValue(line))
    /\ WellFormedPieces(LineValue(line))

\* C4: when the value of an assignment line holds ; and = and no comma and one
\* of its ;-separated pieces does not hold exactly one =, the run fails and the
\* caller gets no vars, those of earlier valid lines included; when every piece
\* holds exactly one =, the conversion of the value succeeds.
C4_MalformedMappingFails ==
    /\ (Terminated /\ \E i \in 1..Len(file) : MalformedMappingLine(file[i])) =>
           (output.failed /\ ~output.has_vars /\ DOMAIN output.vars = {})
    /\ \A i \in 1..Len(file) :
           WellFormedMappingLine(file[i]) =>
               typed_value(LineValue(file[i])).tag = "Mapping"
    /\ \A i \in 1..Len(file) :
           MalformedMappingLine(file[i]) =>
               typed_value(LineValue(file[i])).tag = "Raise"

\* the run died on a malformed mapping in line 2 after line 1 had put an entry
\* into the result; the caller gets none of it
C4_Witness ==
    /\ pc = "crashed"
    /\ idx = 1
    /\ MalformedMappingLine(file[2])
    /\ result.has_vars /\ DOMAIN result.vars # {}
    /\ output.failed /\ ~output.has_vars

\* the final key of line i, as the claims word it: prefix and key joined with
\* no separator, then lower-cased if asked
FinalKey(i) ==
    LET joined == prefix \o LineKey(file[i])
    IN  IF lower THEN Lower(joined) ELSE joined

MatchingLines == {i \in 1..Len(file) : regex_key_value(file[i])}

\* vs is what last-write-wins over the whole file gives
LastWriteWins(vs) ==
    /\ DOMAIN vs = {FinalKey(i) : i \in MatchingLines}
    /\ \A i \in MatchingLines :
           (\A j \in MatchingLines : j > i => FinalKey(j) # FinalKey(i)) =>
               vs[FinalKey(i)] = typed_value(LineValue(file[i]))

\* C5 as stated: after a successful run, vars holds exactly the final keys of
\* the matching lines, each with typed_value of the value of the last line that
\* has this final key.
C5_LastWriteWins ==
    (pc = "done" /\ ~output.failed) => LastWriteWins(output.vars)

\* C5 amended: the same, for a successful run that is not in check mode, vars
\* being absent when no line matched; in check mode the run returns no vars.
C5_LastWriteWinsNormalMode ==
    (pc = "done" /\ ~output.failed) =>
        IF check_mode
        THEN ~output.has_vars /\ DOMAIN output.vars = {}
        ELSE /\ output.has_vars <=> MatchingLines # {}
             /\ LastWriteWins(output.vars)

\* two lines whose keys differ and collide once lower-cased: the later wins
C5_Witness ==
    /\ pc = "done"
    /\ ~check_mode
    /\ lower
    /\ Len(file) = 2
    /\ MatchingLines = {1, 2}
    /\ LineKey(file[1]) # LineKey(file[2])
    /\ FinalKey(1) = FinalKey(2)
    /\ typed_value(LineValue(file[1])) # typed_value(LineValue(file[2]))
    /\ output.vars[FinalKey(2)] = typed_value(LineValue(file[2]))

FOO == <<"F","O","O">>
BAR == <<"B","A","R">>
BAZ == <<"B","A","Z">>
QUX == <<"Q","U","X">>
HelloWorld == <<"h","e","l","l","o"," ","w","o","r","l","d">>

\* the vars of the example, bar_a being the value of BAR's entry a
ExampleVars(bar_a) ==
    [k \in {FOO, BAR, BAZ, QUX} |->
        CASE k = FOO -> List(<<Bool(TRUE), Text(<<"2">>), Text(<<"3">>)>>)
          [] k = BAR -> Mapping([x \in {<<"a">>, <<"b">>} |->
                                    IF x = <<"a">> THEN bar_a ELSE Text(<<"2">>)])
          [] k = BAZ -> Bool(TRUE)
          [] k = QUX -> Text(HelloWorld)]

ExampleRun ==
    /\ Terminated
    /\ path_is_file
    /\ file = ExampleFile
    /\ prefix = <<>>
    /\ ~lower

\* C6 as stated: the example file, with no prefix and lower = false, gives
\* FOO: [1, 2, 3 typed], BAR: {a: Text("1"), b: Text("2")}, BAZ: Bool(true),
\* QUX: Text("hello world") and no other key.
C6_Example ==
    ExampleRun =>
        (pc = "done" /\ ~output.failed /\ output.vars = ExampleVars(Text(<<"1">>)))

\* C6 amended: outside check mode the example gives FOO: [Bool(true),
\* Text("2"), Text("3")], BAR: {a: Bool(true), b: Text("2")}, BAZ: Bool(true),
\* QUX: Text("hello world") and no other key ("1" is a boolean token wherever
\* it stands); in check mode the run succeeds and returns no vars.
C6_ExampleTyped ==
    ExampleRun =>
        /\ pc = "done"
        /\ ~output.failed
        /\ IF check_mode
           THEN ~output.has_vars
           ELSE output.has_vars /\ output.vars = ExampleVars(Bool(TRUE))

C6_Witness ==
    /\ ExampleRun
    /\ ~check_mode
    /\ pc = "done"
    /\ output.vars[BAR].m[<<"a">>] = Bool(TRUE)

\* a prefix as C9 words it: empty, or a letter or underscore followed only by
\* letters, digits, underscores and hyphens
KeyName(s) ==
    /\ Len(s) >= 1
    /\ s[1] \in Letters \cup {"_"}
    /\ \A i \in 2..Len(s) : s[i] \in Letters \cup Digits \cup {"_", "-"}

WellFormedPrefix == prefix = <<>> \/ KeyName(prefix)

====
